---- MODULE Spec2Model ----
(***************************************************************************)
(* Model of the notification schedule worker                               *)
(* (src/workers/scheduleWorker.ts, src/utils/scheduleHelper.ts,            *)
(* src/services/emailService.ts) and of the process that starts it         *)
(* (src/index.ts).                                                         *)
(*                                                                         *)
(* Time is counted in minutes since 1970-01-01 00:00 of the one time zone  *)
(* shared by the Node process and the SQL Server (a JS Date is the same    *)
(* count in milliseconds).  A calendar day is the integer day number       *)
(* since 1970-01-01.                                                       *)
(***************************************************************************)
EXTENDS Integers, Sequences, FiniteSets, TLC

VARIABLES
    \* ---- the store (SQL Server tables) and the clock ----
    now,            \* wall clock, minutes since the epoch
    schedules,      \* notif_notification_schedules: schedule_id -> row
    templates,      \* notif_notification_templates: template_id -> [is_active]
    users,          \* notif_users: user_id -> [is_active]
    notifications,  \* committed rows of notif_notifications
    deliveryLog,    \* committed rows of notif_notification_delivery_log
    nextNotifId,    \* IDENTITY counter of notif_notifications
    \* ---- the worker process ----
    isWorkerRunning,\* scheduleWorker.ts:35
    ticks,          \* number of cron callbacks fired so far
    pass,           \* callback invocation -> its local state (position, locals, transaction)
    \* ---- the outside world and the run history ----
    outbox,         \* every sendEmail call made, with its outcome
    runLog,         \* one entry per finished executeSchedule call
    faults,         \* number of injected failures (throwing queries, failed sends)
    \* ---- the recurrence policy exercised on its own (SpecDue) ----
    dueType, dueStart, dueLast, dueNow, dueResult,
    \* ---- the process (index.ts) and the mailer (emailService.ts) ----
    boot,           \* startServer: its position and what it has found and started
    mailer,         \* emailService.ts: the transporter and the sendEmail call in progress
    \* ---- functions exercised on their own ----
    render,         \* replaceTemplateVariables: its arguments and its local result
    merge,          \* the variable set of lines 233-249: its inputs and the object built
    nextExec,       \* calculateNextExecution: its arguments and its result
    \* ---- the administrative endpoints (scheduleController.ts) ----
    ctl             \* the schedules and recipient assignments written through them

vars == <<now, schedules, templates, users, notifications, deliveryLog, nextNotifId,
          isWorkerRunning, ticks, pass, outbox, runLog, faults,
          dueType, dueStart, dueLast, dueNow, dueResult,
          boot, mailer, render, merge, nextExec, ctl>>

storeVars == <<schedules, templates, users, notifications, deliveryLog, nextNotifId>>
workerVars == <<now, isWorkerRunning, ticks, pass, outbox, runLog, faults>>
sysVars == <<now, schedules, templates, users, notifications, deliveryLog, nextNotifId,
             isWorkerRunning, ticks, pass, outbox, runLog, faults>>
dueVars == <<dueType, dueStart, dueLast, dueNow, dueResult>>
fnVars == <<mailer, render, merge, nextExec>>

----------------------------------------------------------------------------
(* Bounds of the model *)

\* first calendar day of the worker model: 20082 = 2024-12-25
FirstDay == 20082
\* cron callbacks fired in one behaviour
MaxTicks == 2
\* injected failures in one behaviour
MaxFaults == 1
\* first calendar day of the recurrence-policy model: 20051 = 2024-11-24
DueFirstDay == 20051
\* first calendar day of the next-execution model: 20116 = 2025-01-28
NextExecFirstDay == 20116
\* the next-execution model covers NextExecFirstDay .. NextExecFirstDay + MaxNextExecDays
\* (to 2025-02-02)
MaxNextExecDays == 5
\* pieces (letters of text, placeholders) in a template of the rendering model
MaxPieces == 2
\* entries in a variable map of the rendering model
MaxEntries == 2
\* sendEmail calls in one behaviour of the mailer model
MaxMailCalls == 3
\* the recurrence-policy model covers DueFirstDay .. DueFirstDay + MaxDueDays (to 2025-01-03)
MaxDueDays == 40
\* first calendar day of the requests to the administrative endpoints: 2024-12-25
CtlFirstDay == 20082
\* schedules created through createSchedule in one behaviour
MaxSchedules == 1

\* SQL NULL / JS null (timestamps and days are never negative)
Null == 0 - 1

\* a column holding the new Date() of the statement that wrote it (which instant it
\* is, is not kept)
Stamped == 0

\* no EmailResult yet
NoResult == [success |-> FALSE, error |-> "", messageId |-> ""]

\* 1000 * 60 * 60 * 24 ms, in minutes
MinutesPerDay == 1440

ScheduleTypes == {"once", "daily", "weekly", "monthly"}

----------------------------------------------------------------------------
(* Dates: what JS Date and SQL Server compute *)

\* the calendar day of an instant: Date.setHours(0,0,0,0) / CAST(.. AS DATE)
DayOf(t) == t \div MinutesPerDay

\* midnight of the instant's day, as an instant
Midnight(t) == DayOf(t) * MinutesPerDay

\* minute of the day of an instant
TimeOfDay(t) == t % MinutesPerDay

\* an instant from a day and a minute of the day
At(day, tod) == day * MinutesPerDay + tod

\* proleptic Gregorian calendar: <<year, month (0-based as Date.getMonth), day of month>>
Civil(day) ==
    LET z   == day + 719468
        era == z \div 146097
        doe == z - era * 146097
        yoe == (doe - doe \div 1460 + doe \div 36524 - doe \div 146096) \div 365
        doy == doe - (365 * yoe + yoe \div 4 - yoe \div 100)
        mp  == (5 * doy + 2) \div 153
        d   == doy - (153 * mp + 2) \div 5 + 1
        m   == IF mp < 10 THEN mp + 3 ELSE mp - 9
        y   == yoe + era * 400 + (IF m <= 2 THEN 1 ELSE 0)
    IN  <<y, m - 1, d>>

\* Date.getFullYear / Date.getMonth of an instant
getFullYear(t) == Civil(DayOf(t))[1]
getMonth(t) == Civil(DayOf(t))[2]
getDate(t) == Civil(DayOf(t))[3]

\* the day number of a calendar date (month 0-based; months and days beyond the
\* calendar roll over into the following months, as Date.setMonth/setDate do)
DaysFromCivil(year, month, dom) ==
    LET y0  == year + month \div 12
        m1  == (month % 12) + 1
        y   == IF m1 <= 2 THEN y0 - 1 ELSE y0
        era == y \div 400
        yoe == y - era * 400
        mp  == IF m1 > 2 THEN m1 - 3 ELSE m1 + 9
        doy == (153 * mp + 2) \div 5
        doe == yoe * 365 + yoe \div 4 - yoe \div 100 + doy
    IN  era * 146097 + doe - 719468 + (dom - 1)

----------------------------------------------------------------------------
(* Recurrence policy: src/utils/scheduleHelper.ts *)

\* WeeklyDue with the threshold off by one
WeeklyDueSixDays(start, lastExecuted, today) ==
    IF lastExecuted = Null
    THEN start <= today
    ELSE ((today - lastExecuted) \div MinutesPerDay) >= 6

\* the weekly branch of shouldExecuteToday (lines 46-52); today is midnight
WeeklyDue(start, lastExecuted, today) ==
    IF lastExecuted = Null
    THEN start <= today
    ELSE ((today - lastExecuted) \div MinutesPerDay) >= 7

\* MonthlyDue comparing the year only
MonthlyDueYearOnly(start, lastExecuted, today) ==
    IF lastExecuted = Null
    THEN start <= today
    ELSE getFullYear(today) # getFullYear(lastExecuted)

\* the monthly branch of shouldExecuteToday (lines 54-61)
MonthlyDue(start, lastExecuted, today) ==
    IF lastExecuted = Null
    THEN start <= today
    ELSE \/ getMonth(today) # getMonth(lastExecuted)
         \/ getFullYear(today) # getFullYear(lastExecuted)

\* OnceDue without the test of lastExecuted
OnceDueAgain(start, lastExecuted, today) ==
    start <= today

\* the once branch of shouldExecuteToday (lines 38-40)
OnceDue(start, lastExecuted, today) ==
    lastExecuted = Null /\ start <= today

\* the daily branch of shouldExecuteToday (lines 42-44)
DailyDue(start, lastExecuted, today) ==
    start <= today

\* ExecutedToday never finding a run
ExecutedTodayNever(lastExecuted, today) == FALSE

\* the "already executed today" guard of shouldExecuteToday (lines 27-34)
ExecutedToday(lastExecuted, today) ==
    lastExecuted # Null /\ Midnight(lastExecuted) = today

\* shouldExecuteToday(scheduleType, startDate, lastExecuted), called at instant clock;
\* startDate is a calendar day (a DATE column), lastExecuted an instant or Null
shouldExecuteToday(scheduleType, startDate, lastExecuted, clock) ==
    LET today == Midnight(clock)
        start == At(startDate, 0)
    IN  IF lastExecuted = Null /\ start <= today THEN TRUE
        ELSE IF ExecutedToday(lastExecuted, today) THEN FALSE
        ELSE CASE scheduleType = "once" -> OnceDue(start, lastExecuted, today)
               [] scheduleType = "daily" -> DailyDue(start, lastExecuted, today)
               [] scheduleType = "weekly" -> WeeklyDue(start, lastExecuted, today)
               [] scheduleType = "monthly" -> MonthlyDue(start, lastExecuted, today)
               [] OTHER -> FALSE

\* calculateNextExecution(scheduleType, startDate, scheduleTime), called at instant clock;
\* scheduleTime is the minute of the day that "HH:MM:SS" names
calculateNextExecution(scheduleType, scheduleTime, clock) ==
    LET c == Civil(DayOf(clock))
    IN  CASE scheduleType = "daily" -> At(DayOf(clock) + 1, scheduleTime)
          [] scheduleType = "weekly" -> At(DayOf(clock) + 7, scheduleTime)
          [] scheduleType = "monthly" -> At(DaysFromCivil(c[1], c[2] + 1, c[3]), scheduleTime)
          [] OTHER -> Null

----------------------------------------------------------------------------
(* The store *)

ScheduleIds == {1, 2}
UserIds == {1, 2, 3}
TemplateIds == {1}

\* notif_schedule_recipients: the users assigned to each schedule, in fetch order
Assigned == [s \in ScheduleIds |-> IF s = 1 THEN <<1, 3, 2>> ELSE <<3>>]

\* minutes of the day the worker model's clock takes: 00:00 and 09:00
SysTimes == {0, 540}

\* the calendar days the worker model's clock visits: a day, the next day, and the
\* day a week later, in the next month (from 2024-12-25: Dec 25, Dec 26, Jan 1)
SysDays == {FirstDay, FirstDay + 1, FirstDay + 7}

\* the instants of the worker model's clock
Instants == {At(d, tod) : d \in SysDays, tod \in SysTimes}

\* "HH:MM" of an instant: Date.toTimeString().substring(0, 5), as <<hours, minutes>>
HHMM(t) == <<TimeOfDay(t) \div 60, TimeOfDay(t) % 60>>

\* comparison of two zero-padded "HH:MM" strings: a <= b
HHMMLeq(a, b) == a[1] < b[1] \/ (a[1] = b[1] /\ a[2] <= b[2])

\* the WHERE clause of the selector query (scheduleWorker.ts:115-123) for one row;
\* getdate is the instant the query runs, currentTime the "HH:MM" the pass captured
IsSelected(row, tpl, getdate, currentTime) ==
    /\ row.is_active
    /\ tpl.is_active
    /\ row.start_date <= DayOf(getdate)
    /\ (row.end_date = Null \/ row.end_date >= DayOf(getdate))
    /\ HHMMLeq(HHMM(row.schedule_time), currentTime)
    /\ (row.last_executed = Null \/ row.last_executed < Midnight(getdate))

\* the ids the selector query returns
SelectedIds(getdate, currentTime) ==
    {s \in ScheduleIds :
        IsSelected(schedules[s], templates[schedules[s].template_id], getdate, currentTime)}

\* the row the selector returns for a schedule: the columns the executor reads
Snapshot(s) ==
    [schedule_id |-> s,
     template_id |-> schedules[s].template_id,
     schedule_type |-> schedules[s].schedule_type,
     schedule_time |-> schedules[s].schedule_time,
     start_date |-> schedules[s].start_date,
     last_executed |-> schedules[s].last_executed]

\* all sequences over a set without repetition
RECURSIVE Orderings(_)
Orderings(S) ==
    IF S = {} THEN {<<>>}
    ELSE UNION {{<<x>> \o rest : rest \in Orderings(S \ {x})} : x \in S}

\* ORDER BY s.schedule_time ASC: every order of the ids ascending by schedule_time
SelectorResults(getdate, currentTime) ==
    {o \in Orderings(SelectedIds(getdate, currentTime)) :
        \A a, b \in 1 .. Len(o) :
            a < b => schedules[o[a]].schedule_time <= schedules[o[b]].schedule_time}

\* the recipients query (scheduleWorker.ts:186-196): assigned users that are active
RECURSIVE ActiveOf(_)
ActiveOf(us) ==
    IF us = <<>> THEN <<>>
    ELSE (IF users[Head(us)].is_active THEN <<Head(us)>> ELSE <<>>) \o ActiveOf(Tail(us))

----------------------------------------------------------------------------
(* The worker: one cron callback invocation per tick *)

PassIds == 1 .. MaxTicks

\* a transaction that has written nothing
NoTx == [notifs |-> {}, logs |-> {},
         sched |-> [written |-> FALSE, last_executed |-> Null, next_execution |-> Null]]

\* the locals of executeSchedule before its first statement; activeAtBegin keeps what
\* is_active of the schedule's stored row was when transaction.begin() resolved
NoRun == [recipients |-> <<>>, ridx |-> 0, tx |-> NoTx, newNotificationId |-> 0,
          emailSuccess |-> FALSE, lastExecutedParam |-> Null, nextExecution |-> Null,
          successCount |-> 0, failureCount |-> 0,
          created |-> {}, branch |-> "none", cause |-> "none", activeAtBegin |-> TRUE]

\* a callback that has not fired, or has returned
IdlePass == [pc |-> "idle", exit |-> "none", currentDate |-> 0, currentTime |-> <<0, 0>>,
             selected |-> <<>>, idx |-> 0, run |-> NoRun]

\* a callback that returned at line 55
SkippedPass == [IdlePass EXCEPT !.pc = "skipped"]

\* a callback whose pass has ended; exit names the path it ended on
DonePass(exit) == [IdlePass EXCEPT !.pc = "done", !.exit = exit]

\* positions of a callback in which its pass is in flight
InFlightPcs == {"select", "begin", "commitNoop", "fetch", "insert", "send", "log",
                "status", "update", "commit", "rollback"}

InFlight == {i \in PassIds : pass[i].pc \in InFlightPcs}

\* the schedule row executeSchedule is working on
Current(p) == p.selected[p.idx]

\* a query, a commit or a send may still fail (the failures of one behaviour are bounded)
CanFail == faults < MaxFaults


\* OverlapGuard holding every callback back
OverlapGuardAlways(running) == TRUE

\* OverlapGuard never holding a callback back
OverlapGuardOff(running) == FALSE

\* the test of line 53: TRUE when the callback must return without starting a pass
OverlapGuard(running) == running

\* FinallyFlag of a callback that resets the flag after the await instead of in a
\* finally block: an exception skips the reset
FinallyFlagNoFinally(exit) == exit \in {"selectorThrew", "escaped"}

\* isWorkerRunning after the finally block of lines 66-71, for each way the pass ended
FinallyFlag(exit) == FALSE

\* what transaction.commit() leaves in a table: the rows it had plus the transaction's
CommitRows(rows, txRows) == rows \cup txRows

\* RollbackRows of writes that did not go through the transaction
RollbackRowsKept(rows, txRows) == rows \cup txRows

\* what transaction.rollback() (line 429) leaves in a table
RollbackRows(rows, txRows) == rows

\* the cron callback returns: the pass of invocation i ends on the path exit
EndPass(i, exit) ==
    /\ pass' = [pass EXCEPT ![i] = DonePass(exit)]
    /\ isWorkerRunning' = FinallyFlag(exit)

\* the entry of the run history for the executeSchedule call that is ending
RunEntry(i, outcome) ==
    [schedule_id |-> Current(pass[i]).schedule_id, outcome |-> outcome,
     cause |-> pass[i].run.cause, created |-> pass[i].run.created,
     was |-> Current(pass[i]).last_executed,
     last_executed |-> IF outcome = "committed"
                       THEN pass[i].run.tx.sched.last_executed ELSE Null]

\* executeSchedule returns normally: the for loop of lines 139-141 goes on, or the pass ends
ReturnFromRun(i, outcome) ==
    /\ runLog' = Append(runLog, RunEntry(i, outcome))
    /\ IF pass[i].idx < Len(pass[i].selected)
       THEN /\ pass' = [pass EXCEPT ![i].idx = @ + 1, ![i].pc = "begin", ![i].run = NoRun]
            /\ UNCHANGED isWorkerRunning
       ELSE EndPass(i, "processed")

\* an exception leaves executeSchedule: lines 143-146 rethrow, lines 64-71 end the pass
ThrowFromRun(i, outcome) ==
    /\ runLog' = Append(runLog, RunEntry(i, outcome))
    /\ EndPass(i, "escaped")

\* the locals after one iteration of the recipient loop (lines 227-397) ended:
\* the next recipient's INSERT is issued, or lines 402-420 issue the schedule UPDATE
NextRecipient(p, r) ==
    IF r.ridx < Len(r.recipients)
    THEN [p EXCEPT !.pc = "insert", !.run = [r EXCEPT !.ridx = @ + 1]]
    ELSE [p EXCEPT !.pc = "update",
                   !.run = [r EXCEPT !.lastExecutedParam = now,
                                     !.nextExecution =
                                         calculateNextExecution(Current(p).schedule_type,
                                                                Current(p).schedule_time, now)]]

\* the recipient the loop is at
Recipient(p) == p.run.recipients[p.run.ridx]

----------------------------------------------------------------------------
(* Actions *)

\* the clock moves on to its next instant
AdvanceClock ==
    /\ \E t \in Instants :
          /\ t > now
          /\ \A u \in Instants : ~(now < u /\ u < t)
          /\ now' = t
    /\ UNCHANGED <<storeVars, isWorkerRunning, ticks, pass, outbox, runLog, faults,
                   dueVars, fnVars, boot, ctl>>

\* the cron callback of lines 51-72 fires, up to its first await
Tick ==
    /\ boot.cronScheduled
    /\ ticks < MaxTicks
    /\ ticks' = ticks + 1
    /\ \/ /\ OverlapGuard(isWorkerRunning)
          /\ pass' = [pass EXCEPT ![ticks + 1] = SkippedPass]
          /\ UNCHANGED isWorkerRunning
       \/ /\ ~OverlapGuard(isWorkerRunning)
          /\ isWorkerRunning' = TRUE
          /\ pass' = [pass EXCEPT ![ticks + 1] =
                         [IdlePass EXCEPT !.pc = "select", !.currentDate = now,
                                          !.currentTime = HHMM(now)]]
    /\ UNCHANGED <<now, storeVars, outbox, runLog, faults, dueVars, fnVars, boot, ctl>>

\* the selector query of lines 93-125 resolves or rejects
SelectSchedules(i) ==
    /\ pass[i].pc = "select"
    /\ \/ /\ \E o \in SelectorResults(now, pass[i].currentTime) :
                IF o = <<>>
                THEN EndPass(i, "empty")
                ELSE /\ pass' = [pass EXCEPT ![i].pc = "begin", ![i].idx = 1,
                                     ![i].currentDate = 0, ![i].currentTime = <<0, 0>>,
                                     ![i].selected = [k \in 1 .. Len(o) |-> Snapshot(o[k])]]
                     /\ UNCHANGED isWorkerRunning
          /\ UNCHANGED faults
       \/ /\ CanFail
          /\ faults' = faults + 1
          /\ EndPass(i, "selectorThrew")
    /\ UNCHANGED <<now, storeVars, ticks, outbox, runLog, dueVars, fnVars, boot, ctl>>

\* transaction.begin() (line 162) resolves, then lines 167-177 check due-ness; or it rejects
Begin(i) ==
    /\ pass[i].pc = "begin"
    /\ \/ /\ LET s == Current(pass[i])
             IN  IF shouldExecuteToday(s.schedule_type, s.start_date, s.last_executed, now)
                 THEN pass' = [pass EXCEPT ![i].pc = "fetch",
                                           ![i].run.activeAtBegin =
                                               schedules[s.schedule_id].is_active]
                 ELSE pass' = [pass EXCEPT ![i].pc = "commitNoop",
                                           ![i].run.branch = "skipped",
                                           ![i].run.activeAtBegin =
                                               schedules[s.schedule_id].is_active]
          /\ UNCHANGED faults
       \/ /\ CanFail
          /\ faults' = faults + 1
          /\ pass' = [pass EXCEPT ![i].pc = "rollback", ![i].run.cause = "begin"]
    /\ UNCHANGED <<now, storeVars, isWorkerRunning, ticks, outbox, runLog, dueVars, fnVars, boot, ctl>>

\* the recipients query of lines 183-197 resolves (lines 199-259 follow) or rejects
FetchRecipients(i) ==
    /\ pass[i].pc = "fetch"
    /\ \/ /\ LET rs == ActiveOf(Assigned[Current(pass[i]).schedule_id])
             IN  IF rs = <<>>
                 THEN pass' = [pass EXCEPT ![i].pc = "commitNoop", ![i].run.branch = "empty"]
                 ELSE pass' = [pass EXCEPT ![i].pc = "insert", ![i].run.branch = "full",
                                           ![i].run.recipients = rs, ![i].run.ridx = 1]
          /\ UNCHANGED faults
       \/ /\ CanFail
          /\ faults' = faults + 1
          /\ pass' = [pass EXCEPT ![i].pc = "rollback", ![i].run.cause = "fetch"]
    /\ UNCHANGED <<now, storeVars, isWorkerRunning, ticks, outbox, runLog, dueVars, fnVars, boot, ctl>>

\* CommitNoop of a no-op branch that stamps the schedule before it commits
CommitNoopStamped(i) ==
    /\ pass[i].pc = "commitNoop"
    /\ schedules' = [schedules EXCEPT ![Current(pass[i]).schedule_id].last_executed = now]
    /\ ReturnFromRun(i, pass[i].run.branch)
    /\ UNCHANGED <<now, templates, users, notifications, deliveryLog, nextNotifId, ticks,
                   outbox, faults, dueVars, fnVars, boot, ctl>>

\* the cron callback keeps firing every minute (lines 51-72): once MaxTicks callbacks
\* have fired and none has a pass in flight, their records, and the history kept
\* about them, are dropped, and the count starts again
Recycle ==
    /\ ticks = MaxTicks
    /\ InFlight = {}
    /\ ticks' = 0
    /\ pass' = [i \in PassIds |-> IdlePass]
    /\ outbox' = {}
    /\ runLog' = <<>>
    /\ UNCHANGED <<now, storeVars, isWorkerRunning, faults, dueVars, fnVars, boot, ctl>>

\* the commit of a run that wrote nothing (lines 175, 203) resolves or rejects
CommitNoop(i) ==
    /\ pass[i].pc = "commitNoop"
    /\ \/ /\ ReturnFromRun(i, pass[i].run.branch)
          /\ UNCHANGED faults
       \/ /\ CanFail
          /\ faults' = faults + 1
          /\ pass' = [pass EXCEPT ![i].pc = "rollback", ![i].run.cause = "commitNoop"]
          /\ UNCHANGED <<isWorkerRunning, runLog>>
    /\ UNCHANGED <<now, storeVars, ticks, outbox, dueVars, fnVars, boot, ctl>>

\* the INSERT of lines 264-301 resolves (lines 303-326 follow, calling sendEmail), or
\* rejects and lines 393-396 catch it
InsertNotification(i) ==
    /\ pass[i].pc = "insert"
    /\ \/ /\ LET p == pass[i]
                 row == [notification_id |-> nextNotifId,
                         schedule_id |-> Current(p).schedule_id,
                         user_id |-> Recipient(p), status |-> "pending",
                         sent_at |-> Null]
             IN  pass' = [pass EXCEPT ![i].pc = "send",
                                      ![i].run.newNotificationId = nextNotifId,
                                      ![i].run.created = @ \cup {nextNotifId},
                                      ![i].run.tx.notifs = @ \cup {row}]
          /\ nextNotifId' = nextNotifId + 1
          /\ UNCHANGED faults
       \/ /\ CanFail
          /\ faults' = faults + 1
          /\ pass' = [pass EXCEPT ![i] =
                         NextRecipient(pass[i],
                                       [pass[i].run EXCEPT !.failureCount = @ + 1])]
          /\ UNCHANGED nextNotifId
    /\ UNCHANGED <<now, schedules, templates, users, notifications, deliveryLog,
                   isWorkerRunning, ticks, outbox, runLog, dueVars, fnVars, boot, ctl>>

\* sendEmail (emailService.ts:60-100) returns its result; lines 341-368 issue the log INSERT
SendEmail(i) ==
    /\ pass[i].pc = "send"
    /\ \E ok \in BOOLEAN :
          /\ IF ok THEN UNCHANGED faults ELSE CanFail /\ faults' = faults + 1
          /\ outbox' = outbox \cup
                 {[notification_id |-> pass[i].run.newNotificationId,
                   schedule_id |-> Current(pass[i]).schedule_id,
                   user_id |-> Recipient(pass[i]), success |-> ok]}
          /\ pass' = [pass EXCEPT ![i].pc = "log", ![i].run.emailSuccess = ok]
    /\ UNCHANGED <<now, storeVars, isWorkerRunning, ticks, runLog, dueVars, fnVars, boot, ctl>>

\* the delivery-log INSERT of lines 341-368 resolves (lines 373-385 issue the status
\* UPDATE), or rejects and lines 393-396 catch it
InsertDeliveryLog(i) ==
    /\ pass[i].pc = "log"
    /\ \/ /\ LET r == pass[i].run
                 row == [notification_id |-> r.newNotificationId,
                         delivery_status |-> IF r.emailSuccess THEN "delivered" ELSE "failed",
                         delivery_attempts |-> 1,
                         delivered_at |-> IF r.emailSuccess THEN Stamped ELSE Null]
             IN  pass' = [pass EXCEPT ![i].pc = "status", ![i].run.tx.logs = @ \cup {row}]
          /\ UNCHANGED faults
       \/ /\ CanFail
          /\ faults' = faults + 1
          /\ pass' = [pass EXCEPT ![i] =
                         NextRecipient(pass[i],
                                       [pass[i].run EXCEPT !.failureCount = @ + 1])]
    /\ UNCHANGED <<now, storeVars, isWorkerRunning, ticks, outbox, runLog, dueVars, fnVars, boot, ctl>>

\* SetStatus of an UPDATE that lost its WHERE clause
SetStatusEveryRow(rows, id, status, sent_at) ==
    {[n EXCEPT !.status = status, !.sent_at = sent_at] : n \in rows}

\* the rows of a table after the UPDATE of lines 379-384
SetStatus(rows, id, status, sent_at) ==
    {IF n.notification_id = id THEN [n EXCEPT !.status = status, !.sent_at = sent_at]
     ELSE n : n \in rows}

\* the status UPDATE of lines 373-385 resolves (lines 387-391 count), or rejects and
\* lines 393-396 catch it
UpdateStatus(i) ==
    /\ pass[i].pc = "status"
    /\ \/ /\ LET r == pass[i].run
                 done == [r EXCEPT
                            !.tx.notifs = SetStatus(@, r.newNotificationId,
                                              IF r.emailSuccess THEN "sent" ELSE "failed",
                                              IF r.emailSuccess THEN Stamped ELSE Null),
                            !.successCount = IF r.emailSuccess THEN @ + 1 ELSE @,
                            !.failureCount = IF r.emailSuccess THEN @ ELSE @ + 1]
             IN  pass' = [pass EXCEPT ![i] = NextRecipient(pass[i], done)]
          /\ UNCHANGED faults
       \/ /\ CanFail
          /\ faults' = faults + 1
          /\ pass' = [pass EXCEPT ![i] =
                         NextRecipient(pass[i],
                                       [pass[i].run EXCEPT !.failureCount = @ + 1])]
    /\ UNCHANGED <<now, storeVars, isWorkerRunning, ticks, outbox, runLog, dueVars, fnVars, boot, ctl>>

\* UpdateSchedule with the UPDATE issued on the pool instead of the transaction: the
\* row is written at once, whatever becomes of the transaction
UpdateScheduleOnPool(i) ==
    /\ pass[i].pc = "update"
    /\ \/ /\ schedules' = [schedules EXCEPT
                               ![Current(pass[i]).schedule_id].last_executed =
                                   pass[i].run.lastExecutedParam,
                               ![Current(pass[i]).schedule_id].next_execution =
                                   pass[i].run.nextExecution]
          /\ pass' = [pass EXCEPT ![i].pc = "commit",
                         ![i].run.tx.sched =
                             [written |-> TRUE,
                              last_executed |-> pass[i].run.lastExecutedParam,
                              next_execution |-> pass[i].run.nextExecution]]
          /\ UNCHANGED faults
       \/ /\ CanFail
          /\ faults' = faults + 1
          /\ pass' = [pass EXCEPT ![i].pc = "rollback", ![i].run.cause = "update"]
          /\ UNCHANGED schedules
    /\ UNCHANGED <<now, templates, users, notifications, deliveryLog, nextNotifId,
                   isWorkerRunning, ticks, outbox, runLog, dueVars, fnVars, boot, ctl>>

\* the schedule UPDATE of lines 408-420 resolves (line 422 issues the commit) or rejects
UpdateSchedule(i) ==
    /\ pass[i].pc = "update"
    /\ \/ /\ pass' = [pass EXCEPT ![i].pc = "commit",
                         ![i].run.tx.sched =
                             [written |-> TRUE,
                              last_executed |-> pass[i].run.lastExecutedParam,
                              next_execution |-> pass[i].run.nextExecution]]
          /\ UNCHANGED faults
       \/ /\ CanFail
          /\ faults' = faults + 1
          /\ pass' = [pass EXCEPT ![i].pc = "rollback", ![i].run.cause = "update"]
    /\ UNCHANGED <<now, storeVars, isWorkerRunning, ticks, outbox, runLog, dueVars, fnVars, boot, ctl>>

\* transaction.commit() of line 422 resolves or rejects
Commit(i) ==
    /\ pass[i].pc = "commit"
    /\ \/ /\ LET tx == pass[i].run.tx
                 s == Current(pass[i]).schedule_id
             IN  /\ notifications' = CommitRows(notifications, tx.notifs)
                 /\ deliveryLog' = CommitRows(deliveryLog, tx.logs)
                 /\ schedules' = [schedules EXCEPT
                                    ![s].last_executed = tx.sched.last_executed,
                                    ![s].next_execution = tx.sched.next_execution]
          /\ ReturnFromRun(i, "committed")
          /\ UNCHANGED faults
       \/ /\ CanFail
          /\ faults' = faults + 1
          /\ pass' = [pass EXCEPT ![i].pc = "rollback", ![i].run.cause = "commit"]
          /\ UNCHANGED <<schedules, notifications, deliveryLog, isWorkerRunning, runLog>>
    /\ UNCHANGED <<now, templates, users, nextNotifId, ticks, outbox, dueVars, fnVars, boot, ctl>>

\* transaction.rollback() of line 429 resolves (executeSchedule returns) or rejects
\* (the exception leaves executeSchedule)
Rollback(i) ==
    /\ pass[i].pc = "rollback"
    /\ notifications' = RollbackRows(notifications, pass[i].run.tx.notifs)
    /\ deliveryLog' = RollbackRows(deliveryLog, pass[i].run.tx.logs)
    /\ \/ ReturnFromRun(i, "rolledback")
       \/ ThrowFromRun(i, "rollbackFailed")
    /\ UNCHANGED <<now, schedules, templates, users, nextNotifId, ticks, outbox, faults,
                   dueVars, fnVars, boot, ctl>>

----------------------------------------------------------------------------
(* The recurrence policy on its own: a schedule checked, run and checked again *)

\* minutes of the day of the recurrence-policy model: 00:00 and 09:05
DueTimes == {0, 545}

DueInstants == {At(d, tod) : d \in DueFirstDay .. (DueFirstDay + MaxDueDays), tod \in DueTimes}

\* shouldExecuteToday is called at dueNow
DueCheck ==
    /\ dueResult' = IF shouldExecuteToday(dueType, dueStart, dueLast, dueNow)
                    THEN "due" ELSE "notdue"
    /\ UNCHANGED <<dueType, dueStart, dueLast, dueNow, sysVars, fnVars, boot, ctl>>

\* a run that was found due writes last_executed = new Date() (line 411)
DueRun ==
    /\ dueResult = "due"
    /\ dueLast' = dueNow
    /\ dueResult' = "unset"
    /\ UNCHANGED <<dueType, dueStart, dueNow, sysVars, fnVars, boot, ctl>>

\* time passes
DueAdvance ==
    /\ \E t \in DueInstants :
          /\ t > dueNow
          /\ \A u \in DueInstants : ~(dueNow < u /\ u < t)
          /\ dueNow' = t
    /\ dueResult' = "unset"
    /\ UNCHANGED <<dueType, dueStart, dueLast, sysVars, fnVars, boot, ctl>>

----------------------------------------------------------------------------
(* The mailer: emailService.ts *)

\* the module as loaded (line 29: transporter = null), no sendEmail call in progress;
\* attempts counts the transporter.sendMail calls of the sendEmail call in progress,
\* transport is how the last of them ended, log holds what each call returned
NewMailer == [transporter |-> FALSE, pc |-> "idle", attempts |-> 0, transport |-> "none",
              result |-> NoResult, log |-> <<>>]

\* the module after initializeEmailService
IdleMailer == [NewMailer EXCEPT !.transporter = TRUE]

\* info.messageId of a send the transport accepted
MessageIds == {"<id@smtp>"}

\* error.message of the exceptions transporter.sendMail throws
TransportErrors == {"ECONNREFUSED", "EAUTH"}

\* lines 61-67: the result returned when there is no transporter
NotInitialized == [success |-> FALSE, error |-> "Email service not initialized",
                   messageId |-> ""]

\* OnReject of a sendEmail with no catch block: the exception goes to the caller
OnRejectRethrow(m, error) == [m EXCEPT !.pc = "threw", !.transport = "rejected"]

\* lines 90-99: the catch block returns the failure as a result
OnReject(m, error) ==
    [m EXCEPT !.pc = "returned", !.transport = "rejected",
              !.result = [success |-> FALSE, error |-> error, messageId |-> ""]]

\* lines 83-89: the result returned when transporter.sendMail resolved
OnResolve(m, id) ==
    [m EXCEPT !.pc = "returned", !.transport = "resolved",
              !.result = [success |-> TRUE, error |-> "", messageId |-> id]]

\* initializeEmailService (lines 35-55) creates the transporter
InitializeEmailService ==
    /\ mailer.pc = "idle"
    /\ ~mailer.transporter
    /\ mailer' = [mailer EXCEPT !.transporter = TRUE]
    /\ UNCHANGED <<sysVars, dueVars, boot, render, merge, nextExec, ctl>>

\* sendEmail is called: lines 61-67 return at once, or lines 69-79 call
\* transporter.sendMail
SendEmailCall ==
    /\ mailer.pc = "idle"
    /\ Len(mailer.log) < MaxMailCalls
    /\ mailer' = IF ~mailer.transporter
                 THEN [mailer EXCEPT !.pc = "returned", !.attempts = 0,
                                     !.transport = "none", !.result = NotInitialized]
                 ELSE [mailer EXCEPT !.pc = "sendMail", !.attempts = 1,
                                     !.transport = "none", !.result = NoResult]
    /\ UNCHANGED <<sysVars, dueVars, boot, render, merge, nextExec, ctl>>

\* transporter.sendMail resolves
SendMailResolves ==
    /\ mailer.pc = "sendMail"
    /\ \E id \in MessageIds : mailer' = OnResolve(mailer, id)
    /\ UNCHANGED <<sysVars, dueVars, boot, render, merge, nextExec, ctl>>

\* transporter.sendMail rejects
SendMailRejects ==
    /\ mailer.pc = "sendMail"
    /\ \E error \in TransportErrors : mailer' = OnReject(mailer, error)
    /\ UNCHANGED <<sysVars, dueVars, boot, render, merge, nextExec, ctl>>

\* the caller receives the result
SendEmailReturn ==
    /\ mailer.pc = "returned"
    /\ mailer' = [mailer EXCEPT !.pc = "idle",
                                !.log = Append(@, [result |-> mailer.result,
                                                   attempts |-> mailer.attempts,
                                                   transport |-> mailer.transport])]
    /\ UNCHANGED <<sysVars, dueVars, boot, render, merge, nextExec, ctl>>

----------------------------------------------------------------------------
(* The process: startServer of index.ts *)

\* the process as startServer is called (line 131)
NewProcess == [pc |-> "connect", dbConnected |-> FALSE, emailReady |-> FALSE,
               cronScheduled |-> FALSE]

\* what testEmailConnection resolves to: ready or not (index.ts imports it from
\* emailService.ts and reads its result as a boolean, lines 38-39)
TestEmailConnectionResults == BOOLEAN

\* await connectToDatabase() (line 25) resolves, or rejects and lines 64-68 exit
ConnectToDatabase ==
    /\ boot.pc = "connect"
    /\ \/ boot' = [boot EXCEPT !.pc = "initEmail", !.dbConnected = TRUE]
       \/ boot' = [boot EXCEPT !.pc = "exited"]
    /\ UNCHANGED <<sysVars, dueVars, fnVars, ctl>>

\* initializeEmailService() (line 32) creates the transporter, or throws and lines
\* 64-68 exit
BootEmailService ==
    /\ boot.pc = "initEmail"
    /\ \/ /\ boot' = [boot EXCEPT !.pc = "testEmail"]
          /\ mailer' = [mailer EXCEPT !.transporter = TRUE]
       \/ /\ boot' = [boot EXCEPT !.pc = "exited"]
          /\ UNCHANGED mailer
    /\ UNCHANGED <<sysVars, dueVars, render, merge, nextExec, ctl>>

\* await testEmailConnection() (line 38) resolves; lines 39-44 log either way
TestEmailConnection ==
    /\ boot.pc = "testEmail"
    /\ \E ready \in TestEmailConnectionResults :
          boot' = [boot EXCEPT !.pc = "startWorker", !.emailReady = ready]
    /\ UNCHANGED <<sysVars, dueVars, fnVars, ctl>>

\* startScheduleWorker() (line 50) registers the cron callback
StartScheduleWorker ==
    /\ boot.pc = "startWorker"
    /\ boot' = [boot EXCEPT !.pc = "listen", !.cronScheduled = TRUE]
    /\ UNCHANGED <<sysVars, dueVars, fnVars, ctl>>

\* app.listen (lines 57-62)
Listen ==
    /\ boot.pc = "listen"
    /\ boot' = [boot EXCEPT !.pc = "listening"]
    /\ UNCHANGED <<sysVars, dueVars, fnVars, ctl>>

----------------------------------------------------------------------------
(* Functions exercised on their own *)

(* replaceTemplateVariables (scheduleHelper.ts:114-126).  A string is the sequence of
   its characters.  The keys of the variable map start and end with a letter, so the
   greedy \s* of the pattern never has to give a character back. *)

IdleRender == [pc |-> "idle", template |-> <<>>, variables |-> <<>>, idx |-> 0,
               result |-> <<>>]

\* "{{" name "}}", with pad spaces on each side of the name
Placeholder(name, pad) ==
    <<"{", "{">> \o [k \in 1 .. pad |-> " "] \o name \o [k \in 1 .. pad |-> " "]
        \o <<"}", "}">>

\* the pieces templates are made of: a letter of text, and the placeholders {{a}},
\* {{ a }}, {{b}}, {{c}} and {{acb}}
Pieces ==
    {<<"H">>, Placeholder(<<"a">>, 0), Placeholder(<<"a">>, 1), Placeholder(<<"b">>, 0),
     Placeholder(<<"c">>, 0), Placeholder(<<"a", "c", "b">>, 0)}

\* the templates: up to MaxPieces pieces in a row
RECURSIVE Concat(_)
Concat(ps) == IF ps = <<>> THEN <<>> ELSE Head(ps) \o Concat(Tail(ps))

Templates == {Concat(ps) : ps \in UNION {[1 .. n -> Pieces] : n \in 0 .. MaxPieces}}

\* the keys of the variable maps: a, b and a.b
Keys == {<<"a">>, <<"b">>, <<"a", ".", "b">>}

\* the values of the variable maps: the strings "S", "", "{{b}}", "$&" and "$$", and null
Values ==
    {[kind |-> "string", text |-> s] :
        s \in {<<"S">>, <<>>, Placeholder(<<"b">>, 0), <<"$", "&">>, <<"$", "$">>}}
    \cup {[kind |-> "null", text |-> <<>>]}

\* Object.entries of the variable maps: up to MaxEntries [key, value] pairs in
\* insertion order, no key twice
VariableMaps ==
    {es \in UNION {[1 .. n -> Keys \X Values] : n \in 0 .. MaxEntries} :
        \A i, j \in 1 .. Len(es) : i # j => es[i][1] # es[j][1]}

\* String(value)
String(v) == IF v.kind = "null" THEN <<"n", "u", "l", "l">> ELSE v.text

\* \s* from position p of s: the position of the first character that is no space
RECURSIVE SkipSpaces(_, _)
SkipSpaces(s, p) == IF p <= Len(s) /\ s[p] = " " THEN SkipSpaces(s, p + 1) ELSE p

\* the key, as a piece of a regular expression, matches s from position p: a dot
\* matches any character, every other character of the keys itself
KeyMatches(s, p, key) ==
    /\ p + Len(key) - 1 <= Len(s)
    /\ \A j \in 1 .. Len(key) : key[j] = "." \/ key[j] = s[p + j - 1]

\* new RegExp(`{{\\s*${key}\\s*}}`) (line 121) matched at position p of s: the
\* position after the match, or 0 when there is none
MatchAt(s, p, key) ==
    IF ~(p + 1 <= Len(s) /\ s[p] = "{" /\ s[p + 1] = "{") THEN 0
    ELSE LET q == SkipSpaces(s, p + 2)
         IN  IF ~KeyMatches(s, q, key) THEN 0
             ELSE LET r == SkipSpaces(s, q + Len(key))
                  IN  IF r + 1 <= Len(s) /\ s[r] = "}" /\ s[r + 1] = "}" THEN r + 2 ELSE 0

\* GetSubstitution of String.prototype.replace for a pattern without groups: in the
\* replacement text $$ stands for $ and $& for the matched text (the values have
\* no other character that is special after $)
RECURSIVE GetSubstitution(_, _)
GetSubstitution(matched, replacement) ==
    IF replacement = <<>> THEN <<>>
    ELSE IF Len(replacement) >= 2 /\ replacement[1] = "$" /\ replacement[2] = "$"
    THEN <<"$">> \o GetSubstitution(matched, SubSeq(replacement, 3, Len(replacement)))
    ELSE IF Len(replacement) >= 2 /\ replacement[1] = "$" /\ replacement[2] = "&"
    THEN matched \o GetSubstitution(matched, SubSeq(replacement, 3, Len(replacement)))
    ELSE <<replacement[1]>> \o GetSubstitution(matched, Tail(replacement))

\* result.replace(regex, replacement) with the g flag (line 122), from position p on
RECURSIVE Replace(_, _, _, _)
Replace(s, p, key, replacement) ==
    IF p > Len(s) THEN <<>>
    ELSE LET e == MatchAt(s, p, key)
         IN  IF e # 0
             THEN GetSubstitution(SubSeq(s, p, e - 1), replacement)
                      \o Replace(s, e, key, replacement)
             ELSE <<s[p]>> \o Replace(s, p + 1, key, replacement)

\* replaceTemplateVariables is called: line 118
RenderCall ==
    /\ render.pc = "called"
    /\ render' = [render EXCEPT !.pc = "loop", !.result = render.template, !.idx = 1]
    /\ UNCHANGED <<sysVars, dueVars, boot, mailer, merge, nextExec, ctl>>

\* one iteration of the loop of lines 120-123
RenderEntry ==
    /\ render.pc = "loop"
    /\ render.idx <= Len(render.variables)
    /\ LET key == render.variables[render.idx][1]
           value == render.variables[render.idx][2]
       IN  render' = [render EXCEPT !.result = Replace(@, 1, key, String(value)),
                                    !.idx = @ + 1]
    /\ UNCHANGED <<sysVars, dueVars, boot, mailer, merge, nextExec, ctl>>

\* the loop is over: line 125 returns result
RenderReturn ==
    /\ render.pc = "loop"
    /\ render.idx > Len(render.variables)
    /\ render' = [render EXCEPT !.pc = "returned"]
    /\ UNCHANGED <<sysVars, dueVars, boot, mailer, merge, nextExec, ctl>>
(* The variable set of a recipient (scheduleWorker.ts:212-249).  A JS value is a
   record of its kind and its text; an object is a function from its keys. *)

JsNull == [kind |-> "null", text |-> <<>>]
Str(s) == [kind |-> "string", text |-> s]
Num(digits) == [kind |-> "number", text |-> digits]

\* {}
EmptyObject == <<>>

IdleMerge == [pc |-> "idle", template_variables |-> [kind |-> "null"],
              recipient |-> EmptyObject, schedule |-> EmptyObject,
              templateVars |-> EmptyObject, vars |-> EmptyObject]

\* the keys lines 238-248 set from the recipient row and from the schedule row
RecipientFields == {"first_name", "last_name", "full_name", "email", "phone_number"}
ContextFields == {"department_id", "sub_department_id", "department_name",
                  "sub_department_name"}

\* the keys a schedule's template_variables object may have in the model: three that
\* collide with a recipient or context field, and one of its own
AuthoredKeys == {"first_name", "phone_number", "sub_department_id", "custom"}

\* the template_variables column: NULL, a text that is no JSON, or the JSON text of
\* an object whose values are all the string "T"
TemplateVariablesColumns ==
    {[kind |-> "null"], [kind |-> "invalid"]}
    \cup {[kind |-> "object", keys |-> ks] : ks \in SUBSET AuthoredKeys}

\* the rows of the recipients query (lines 186-196): phone_number is nullable
RecipientRows ==
    {[first_name |-> Str(<<"S">>), last_name |-> Str(<<"L">>), email |-> Str(<<"e">>),
      phone_number |-> ph] : ph \in {JsNull, Str(<<"5">>)}}

\* the columns of the selector's row (lines 96-110) that lines 245-248 read: the sub
\* department comes from a LEFT JOIN and may be NULL
ScheduleRows ==
    {[department_id |-> Num(<<"7">>), sub_department_id |-> sd[1],
      department_name |-> Str(<<"D">>), sub_department_name |-> sd[2]] :
        sd \in {<<JsNull, JsNull>>, <<Num(<<"9">>), Str(<<"s">>)>>}}

\* lines 212-219: templateVars after the column was parsed
JsonParse(column) ==
    IF column.kind = "object" THEN [k \in column.keys |-> Str(<<"T">>)] ELSE EmptyObject

\* value || ''
OrEmpty(v) == IF v.kind = "null" \/ (v.kind = "string" /\ v.text = <<>>) THEN Str(<<>>) ELSE v

\* ...source inside an object literal: every property of source is set on obj
Spread(obj, source) ==
    [k \in DOMAIN obj \cup DOMAIN source |-> IF k \in DOMAIN source THEN source[k] ELSE obj[k]]

\* key: value inside an object literal
Put(obj, key, value) == [k \in DOMAIN obj \cup {key} |-> IF k = key THEN value ELSE obj[k]]

\* the properties of an object literal, set in the order they are written
RECURSIVE PutAll(_, _)
PutAll(obj, entries) ==
    IF entries = <<>> THEN obj
    ELSE PutAll(Put(obj, Head(entries)[1], Head(entries)[2]), Tail(entries))

\* the properties lines 238-248 write, in order
FieldEntries(recipient, schedule) ==
    <<<<"first_name", recipient.first_name>>,
      <<"last_name", recipient.last_name>>,
      <<"full_name", Str(String(recipient.first_name) \o <<" ">>
                             \o String(recipient.last_name))>>,
      <<"email", recipient.email>>,
      <<"phone_number", OrEmpty(recipient.phone_number)>>,
      <<"department_id", schedule.department_id>>,
      <<"sub_department_id", OrEmpty(schedule.sub_department_id)>>,
      <<"department_name", OrEmpty(schedule.department_name)>>,
      <<"sub_department_name", OrEmpty(schedule.sub_department_name)>>>>

\* BuildVars with the spread written last in the literal
BuildVarsSpreadLast(templateVars, recipient, schedule) ==
    Spread(PutAll(EmptyObject, FieldEntries(recipient, schedule)), templateVars)

\* the object literal of lines 233-249
BuildVars(templateVars, recipient, schedule) ==
    PutAll(Spread(EmptyObject, templateVars), FieldEntries(recipient, schedule))

\* lines 212-219 parse the schedule's template_variables
ParseTemplateVariables ==
    /\ merge.pc = "parse"
    /\ merge' = [merge EXCEPT !.pc = "recipient",
                              !.templateVars = JsonParse(merge.template_variables)]
    /\ UNCHANGED <<sysVars, dueVars, boot, mailer, render, nextExec, ctl>>

\* lines 233-249 build the variable set of the recipient the loop is at
BuildRecipientVars ==
    /\ merge.pc = "recipient"
    /\ merge' = [merge EXCEPT !.pc = "built",
                              !.vars = BuildVars(merge.templateVars, merge.recipient,
                                                 merge.schedule)]
    /\ UNCHANGED <<sysVars, dueVars, boot, mailer, render, nextExec, ctl>>
(* calculateNextExecution (scheduleHelper.ts:71-108) called at one instant after another *)

IdleNextExec == [pc |-> "idle", scheduleType |-> "once", scheduleTime |-> 0, now |-> 0,
                 result |-> Null]

\* minutes of the day at which the function is called: 00:00 and 09:05
NextExecTimes == {0, 545}

NextExecInstants ==
    {At(d, tod) : d \in NextExecFirstDay .. (NextExecFirstDay + MaxNextExecDays),
                  tod \in NextExecTimes}

\* calculateNextExecution is called and returns
NextExecCall ==
    /\ nextExec.pc = "ready"
    /\ nextExec' = [nextExec EXCEPT
                       !.pc = "returned",
                       !.result = calculateNextExecution(nextExec.scheduleType,
                                                         nextExec.scheduleTime, nextExec.now)]
    /\ UNCHANGED <<sysVars, dueVars, boot, mailer, render, merge, ctl>>

\* time passes
NextExecAdvance ==
    /\ \E t \in NextExecInstants :
          /\ t > nextExec.now
          /\ \A u \in NextExecInstants : ~(nextExec.now < u /\ u < t)
          /\ nextExec' = [nextExec EXCEPT !.pc = "ready", !.now = t, !.result = Null]
    /\ UNCHANGED <<sysVars, dueVars, boot, mailer, render, merge, ctl>>

----------------------------------------------------------------------------
(* The administrative endpoints: createSchedule and updateSchedule of
   scheduleController.ts.  A field of a request body is Undefined when the body does
   not have it and Given(v) when it has the value v; a string is the sequence of its
   characters; a date is a day number. *)

Undefined == [kind |-> "undefined"]
Given(v) == [kind |-> "given", v |-> v]
IsGiven(x) == x.kind = "given"

\* x || null of a body field, as the column stores it
OrNull(x) == IF IsGiven(x) THEN x.v ELSE Null

\* notif_departments: the departments, all active
DepartmentIds == {1, 2}

\* notif_sub_departments: sub_department_id -> department_id, all active
SubDepartments == [sd \in {1, 2} |-> 1]

\* notif_notification_templates as the endpoints read it
CtlTemplates == [t \in {1} |-> [department_id |-> 1, is_active |-> TRUE]]

\* notif_users as the endpoints read it: users 1 and 2 in the sub-departments 1 and 2
\* of department 1, user 3 in department 2
CtlUsers ==
    [u \in {1, 2, 3} |->
        [is_active |-> TRUE,
         department_id |-> IF u = 3 THEN 2 ELSE 1,
         sub_department_id |-> IF u = 3 THEN Null ELSE u]]

\* the callers: an admin of department 1 and a user without the admin role
AuthUsers == {[role |-> "admin", department_id |-> 1],
              [role |-> "user", department_id |-> 1]}

Digits == {"0", "1", "2", "3", "4", "5", "6", "7", "8", "9"}

\* String.prototype.trim
RECURSIVE Trim(_)
Trim(s) ==
    IF s = <<>> THEN s
    ELSE IF Head(s) = " " THEN Trim(Tail(s))
    ELSE IF s[Len(s)] = " " THEN Trim(SubSeq(s, 1, Len(s) - 1))
    ELSE s

\* isValidScheduleType (lines 9-11)
isValidScheduleType(type) == type \in {"once", "daily", "weekly", "monthly"}

\* isValidTime (lines 14-18): /^([01]\d|2[0-3]):([0-5]\d)$/ on the trimmed string
isValidTime(time) ==
    /\ time # <<>>
    /\ LET t == Trim(time)
       IN  /\ Len(t) = 5
           /\ \/ t[1] \in {"0", "1"} /\ t[2] \in Digits
              \/ t[1] = "2" /\ t[2] \in {"0", "1", "2", "3"}
           /\ t[3] = ":"
           /\ t[4] \in {"0", "1", "2", "3", "4", "5"}
           /\ t[5] \in Digits

\* no schedule stored, no request answered
NewCtl == [rows |-> <<>>, recipients |-> <<>>, status |-> 0]

\* the recipient checks of createSchedule (lines 192-218)
CreateRecipientsStatus(department_id, sub_department_id, ids) ==
    IF \E u \in ids : u \notin DOMAIN CtlUsers THEN 400
    ELSE IF \E u \in ids : ~CtlUsers[u].is_active THEN 400
    ELSE IF \E u \in ids : CtlUsers[u].department_id # department_id THEN 400
    ELSE IF /\ IsGiven(sub_department_id)
            /\ \E u \in ids : CtlUsers[u].sub_department_id # sub_department_id.v THEN 400
    ELSE 201

\* the status createSchedule answers with when no query rejects (lines 23-218)
CreateStatus(authUser, body) ==
    IF authUser.role \notin {"admin", "super-admin"} THEN 403
    ELSE IF ~IsGiven(body.template_id) THEN 400
    ELSE IF ~IsGiven(body.department_id) THEN 400
    ELSE IF ~IsGiven(body.schedule_type) \/ ~isValidScheduleType(body.schedule_type.v)
         THEN 400
    ELSE IF ~IsGiven(body.schedule_time) \/ ~isValidTime(body.schedule_time.v) THEN 400
    ELSE IF ~IsGiven(body.start_date) THEN 400
    ELSE IF ~IsGiven(body.recipient_user_ids) \/ body.recipient_user_ids.v = {} THEN 400
    ELSE IF authUser.role = "admin" /\ authUser.department_id # body.department_id.v
         THEN 403
    ELSE IF body.department_id.v \notin DepartmentIds THEN 404
    ELSE IF /\ IsGiven(body.sub_department_id)
            /\ \/ body.sub_department_id.v \notin DOMAIN SubDepartments
               \/ SubDepartments[body.sub_department_id.v] # body.department_id.v
         THEN 404
    ELSE IF body.template_id.v \notin DOMAIN CtlTemplates THEN 404
    ELSE IF ~CtlTemplates[body.template_id.v].is_active THEN 400
    ELSE IF CtlTemplates[body.template_id.v].department_id # body.department_id.v THEN 400
    ELSE CreateRecipientsStatus(body.department_id.v, body.sub_department_id,
                                body.recipient_user_ids.v)

\* the row the INSERT of lines 238-301 stores
CreatedRow(body) ==
    [template_id |-> body.template_id.v,
     department_id |-> body.department_id.v,
     sub_department_id |-> OrNull(body.sub_department_id),
     schedule_type |-> body.schedule_type.v,
     schedule_time |-> body.schedule_time.v \o <<":", "0", "0">>,
     start_date |-> body.start_date.v,
     end_date |-> OrNull(body.end_date),
     is_active |-> TRUE]

\* the request bodies of createSchedule
CreateBodies ==
    [template_id : {Given(1)},
     department_id : {Undefined, Given(1), Given(2)},
     sub_department_id : {Undefined, Given(1)},
     schedule_type : {Given("daily"), Given("hourly")},
     schedule_time : {Given(<<"0", "9", ":", "0", "0">>), Given(<<"2", "4", ":", "0", "0">>)},
     start_date : {Undefined, Given(CtlFirstDay + 1)},
     end_date : {Undefined, Given(CtlFirstDay), Given(CtlFirstDay + 2)},
     recipient_user_ids : {Given(ids) : ids \in SUBSET {1, 2, 3}}]

\* createSchedule (lines 21-343): the request is answered with 201 and the schedule
\* and its recipients are stored; or it is rejected; or a query of the transaction
\* rejects and the transaction is rolled back
createSchedule ==
    /\ Len(ctl.rows) < MaxSchedules
    /\ \E authUser \in AuthUsers, body \in CreateBodies :
          LET status == CreateStatus(authUser, body)
          IN  \/ /\ status = 201
                 /\ ctl' = [rows |-> Append(ctl.rows, CreatedRow(body)),
                            recipients |-> Append(ctl.recipients, body.recipient_user_ids.v),
                            status |-> 201]
              \/ /\ status # 201
                 /\ ctl' = [ctl EXCEPT !.status = status]
              \/ /\ status = 201
                 /\ ctl' = [ctl EXCEPT !.status = 500]
    /\ UNCHANGED <<sysVars, dueVars, fnVars, boot>>

----------------------------------------------------------------------------

\* updateScheduleStatus (lines 933-1003) called by an admin for a schedule of the
\* worker's store: the UPDATE of lines 978-986 sets is_active on the pool, outside
\* any transaction of the worker.  A request without the admin role or without
\* is_active is rejected and changes nothing.
updateScheduleStatus ==
    /\ \E authUser \in AuthUsers, id \in ScheduleIds,
          is_active \in {Undefined, Given(TRUE), Given(FALSE)} :
          /\ authUser.role \in {"admin", "super-admin"}
          /\ IsGiven(is_active)
          /\ schedules' = [schedules EXCEPT ![id].is_active = is_active.v]
    /\ UNCHANGED <<now, templates, users, notifications, deliveryLog, nextNotifId,
                   isWorkerRunning, ticks, pass, outbox, runLog, faults,
                   dueVars, fnVars, boot, ctl>>

\* the recipient checks of updateSchedule (lines 811-831)
UpdateRecipientsStatus(existing, ids) ==
    IF \E u \in ids : u \notin DOMAIN CtlUsers THEN 400
    ELSE IF \E u \in ids : ~CtlUsers[u].is_active THEN 400
    ELSE IF \E u \in ids : CtlUsers[u].department_id # existing.department_id THEN 400
    ELSE 200

\* the status updateSchedule answers with when no query rejects (lines 639-831)
UpdateStatusCode(authUser, id, body) ==
    IF authUser.role \notin {"admin", "super-admin"} THEN 403
    ELSE IF \A k \in DOMAIN body : ~IsGiven(body[k]) THEN 400
    ELSE IF IsGiven(body.schedule_type) /\ ~isValidScheduleType(body.schedule_type.v)
         THEN 400
    ELSE IF IsGiven(body.schedule_time) /\ ~isValidTime(body.schedule_time.v) THEN 400
    ELSE IF IsGiven(body.recipient_user_ids) /\ body.recipient_user_ids.v = {} THEN 400
    ELSE IF id \notin 1 .. Len(ctl.rows) THEN 404
    ELSE IF authUser.role = "admin" /\ ctl.rows[id].department_id # authUser.department_id
         THEN 403
    ELSE IF IsGiven(body.recipient_user_ids)
         THEN UpdateRecipientsStatus(ctl.rows[id], body.recipient_user_ids.v)
    ELSE 200

\* the row after the UPDATE of lines 734-788: the columns the body gives are set
UpdatedRow(existing, body) ==
    [existing EXCEPT
        !.schedule_type = IF IsGiven(body.schedule_type) THEN body.schedule_type.v ELSE @,
        !.schedule_time = IF IsGiven(body.schedule_time)
                          THEN body.schedule_time.v \o <<":", "0", "0">> ELSE @,
        !.start_date = IF IsGiven(body.start_date) THEN body.start_date.v ELSE @,
        !.end_date = IF IsGiven(body.end_date) THEN body.end_date.v ELSE @,
        !.is_active = IF IsGiven(body.is_active) THEN body.is_active.v ELSE @]

\* the request bodies of updateSchedule; end_date null clears the column
UpdateBodies ==
    [schedule_type : {Undefined, Given("hourly"), Given("weekly")},
     schedule_time : {Undefined, Given(<<"2", "4", ":", "0", "0">>)},
     start_date : {Undefined, Given(CtlFirstDay + 3)},
     end_date : {Undefined, Given(Null), Given(CtlFirstDay + 2)},
     is_active : {Undefined, Given(FALSE)},
     recipient_user_ids : {Undefined} \cup {Given(ids) : ids \in SUBSET {1, 2, 3}}]

\* updateSchedule (lines 638-930): the request is answered with 200, the row is
\* updated and, when the body gives recipients, the assignment is replaced; or it is
\* rejected; or a query of the transaction rejects and the transaction is rolled back
updateSchedule ==
    \E authUser \in AuthUsers, id \in 1 .. MaxSchedules, body \in UpdateBodies :
        LET status == UpdateStatusCode(authUser, id, body)
        IN  /\ \/ /\ status = 200
                  /\ ctl' = [rows |-> [ctl.rows EXCEPT ![id] = UpdatedRow(@, body)],
                             recipients |->
                                 IF IsGiven(body.recipient_user_ids)
                                 THEN [ctl.recipients EXCEPT
                                          ![id] = body.recipient_user_ids.v]
                                 ELSE ctl.recipients,
                             status |-> 200]
               \/ /\ status # 200
                  /\ ctl' = [ctl EXCEPT !.status = status]
               \/ /\ status = 200
                  /\ ctl' = [ctl EXCEPT !.status = 500]
            /\ UNCHANGED <<sysVars, dueVars, fnVars, boot>>

----------------------------------------------------------------------------

(* Specifications *)

\* the rows the administrative side has stored before the worker starts
InitSchedule(s, type) ==
    [schedule_type |-> type,
     schedule_time |-> IF s = 1 THEN 0 ELSE 540,
     start_date |-> FirstDay,
     end_date |-> Null,
     is_active |-> TRUE,
     template_id |-> 1,
     last_executed |-> Null,
     next_execution |-> Null]

InitStore ==
    /\ \E t \in ScheduleTypes :
          schedules = [s \in ScheduleIds |-> InitSchedule(s, IF s = 1 THEN t ELSE "daily")]
    /\ templates = [t \in TemplateIds |-> [is_active |-> TRUE]]
    /\ users = [u \in UserIds |-> [is_active |-> u # 3]]
    /\ notifications = {}
    /\ deliveryLog = {}
    /\ nextNotifId = 1

InitWorker ==
    /\ now = At(FirstDay, 0)
    /\ isWorkerRunning = FALSE
    /\ ticks = 0
    /\ pass = [i \in PassIds |-> IdlePass]
    /\ outbox = {}
    /\ runLog = <<>>
    /\ faults = 0

InitDueIdle ==
    /\ dueType = "once"
    /\ dueStart = DueFirstDay
    /\ dueLast = Null
    /\ dueNow = At(DueFirstDay, 0)
    /\ dueResult = "unset"

\* a process whose startServer has run to its end with nothing failing
InitBooted ==
    boot = [pc |-> "listening", dbConnected |-> TRUE, emailReady |-> TRUE,
            cronScheduled |-> TRUE]

\* no function is being exercised on its own
InitFnIdle ==
    /\ mailer = IdleMailer
    /\ render = IdleRender
    /\ merge = IdleMerge
    /\ nextExec = IdleNextExec

\* no request to the administrative endpoints has been made
InitNoRequests == ctl = NewCtl

Init == InitStore /\ InitWorker /\ InitDueIdle /\ InitBooted /\ InitFnIdle /\ InitNoRequests

Next ==
    \/ AdvanceClock
    \/ Tick
    \/ \E i \in PassIds :
          \/ SelectSchedules(i)
          \/ Begin(i)
          \/ FetchRecipients(i)
          \/ CommitNoop(i)
          \/ InsertNotification(i)
          \/ SendEmail(i)
          \/ InsertDeliveryLog(i)
          \/ UpdateStatus(i)
          \/ UpdateSchedule(i)
          \/ Commit(i)
          \/ Rollback(i)

Spec == Init /\ [][Next]_vars

\* the inputs of the recurrence policy
InitDue ==
    /\ dueType \in ScheduleTypes
    /\ dueStart \in {DueFirstDay, DueFirstDay + 1}
    /\ dueLast = Null
    /\ dueNow \in {At(DueFirstDay, tod) : tod \in DueTimes}
    /\ dueResult = "unset"
    /\ schedules = [s \in ScheduleIds |-> InitSchedule(s, "daily")]
    /\ templates = [t \in TemplateIds |-> [is_active |-> TRUE]]
    /\ users = [u \in UserIds |-> [is_active |-> u # 3]]
    /\ notifications = {}
    /\ deliveryLog = {}
    /\ nextNotifId = 1
    /\ InitWorker
    /\ InitBooted
    /\ InitFnIdle
    /\ InitNoRequests

\* what the process and the database server do sooner or later: the clock moves, cron
\* fires, and every query, begin, commit and rollback issued is answered.  Nothing of
\* the kind holds of transporter.sendMail (emailService.ts:75): the call has no
\* timeout of its own, so SendEmail has no fairness
WorkerFairness ==
    /\ WF_vars(AdvanceClock)
    /\ WF_vars(Tick)
    /\ \A i \in PassIds :
          /\ WF_vars(SelectSchedules(i))
          /\ WF_vars(Begin(i))
          /\ WF_vars(FetchRecipients(i))
          /\ WF_vars(CommitNoop(i))
          /\ WF_vars(InsertNotification(i))
          /\ WF_vars(InsertDeliveryLog(i))
          /\ WF_vars(UpdateStatus(i))
          /\ WF_vars(UpdateSchedule(i))
          /\ WF_vars(Commit(i))
          /\ WF_vars(Rollback(i))

SpecLive == Init /\ [][Next]_vars /\ WorkerFairness

\* the worker with both schedules daily at 09:00
InitNine ==
    /\ schedules = [s \in ScheduleIds |->
                       [InitSchedule(s, "daily") EXCEPT !.schedule_time = 540]]
    /\ templates = [t \in TemplateIds |-> [is_active |-> TRUE]]
    /\ users = [u \in UserIds |-> [is_active |-> u # 3]]
    /\ notifications = {}
    /\ deliveryLog = {}
    /\ nextNotifId = 1
    /\ InitWorker
    /\ InitDueIdle
    /\ InitBooted
    /\ InitFnIdle
    /\ InitNoRequests

SpecNine == InitNine /\ [][Next]_vars

\* the store and the worker at rest, for the specifications that exercise one function
InitAtRest ==
    /\ schedules = [s \in ScheduleIds |-> InitSchedule(s, "daily")]
    /\ templates = [t \in TemplateIds |-> [is_active |-> TRUE]]
    /\ users = [u \in UserIds |-> [is_active |-> u # 3]]
    /\ notifications = {}
    /\ deliveryLog = {}
    /\ nextNotifId = 1
    /\ InitWorker
    /\ InitDueIdle
    /\ InitBooted
    /\ InitNoRequests

\* the mailer on its own: sendEmail called before and after initializeEmailService
InitMail ==
    /\ InitAtRest
    /\ mailer = NewMailer
    /\ render = IdleRender
    /\ merge = IdleMerge
    /\ nextExec = IdleNextExec

NextMail ==
    \/ InitializeEmailService
    \/ SendEmailCall
    \/ SendMailResolves
    \/ SendMailRejects
    \/ SendEmailReturn

SpecMail == InitMail /\ [][NextMail]_vars

\* replaceTemplateVariables on its own: called with a template and a variable map
InitRender ==
    /\ InitAtRest
    /\ mailer = IdleMailer
    /\ \E tpl \in Templates, vs \in VariableMaps :
          render = [IdleRender EXCEPT !.pc = "called", !.template = tpl, !.variables = vs]
    /\ merge = IdleMerge
    /\ nextExec = IdleNextExec

NextRender == RenderCall \/ RenderEntry \/ RenderReturn

SpecRender == InitRender /\ [][NextRender]_vars

\* the variable set on its own: one schedule row, one recipient row
InitMerge ==
    /\ InitAtRest
    /\ mailer = IdleMailer
    /\ render = IdleRender
    /\ \E col \in TemplateVariablesColumns, r \in RecipientRows, s \in ScheduleRows :
          merge = [IdleMerge EXCEPT !.pc = "parse", !.template_variables = col,
                                    !.recipient = r, !.schedule = s]
    /\ nextExec = IdleNextExec

NextMerge == ParseTemplateVariables \/ BuildRecipientVars

SpecMerge == InitMerge /\ [][NextMerge]_vars

\* calculateNextExecution on its own
InitNextExec ==
    /\ InitAtRest
    /\ mailer = IdleMailer
    /\ render = IdleRender
    /\ merge = IdleMerge
    /\ \E type \in ScheduleTypes, time \in {0, 540} :
          nextExec = [IdleNextExec EXCEPT !.pc = "ready", !.scheduleType = type,
                                          !.scheduleTime = time,
                                          !.now = At(NextExecFirstDay, 0)]

NextNextExec == NextExecCall \/ NextExecAdvance

SpecNextExec == InitNextExec /\ [][NextNextExec]_vars

\* the process from its start: startServer, then the worker it started
InitBoot ==
    /\ schedules = [s \in ScheduleIds |-> InitSchedule(s, "daily")]
    /\ templates = [t \in TemplateIds |-> [is_active |-> TRUE]]
    /\ users = [u \in UserIds |-> [is_active |-> u # 3]]
    /\ notifications = {}
    /\ deliveryLog = {}
    /\ nextNotifId = 1
    /\ InitWorker
    /\ InitDueIdle
    /\ InitNoRequests
    /\ boot = NewProcess
    /\ mailer = NewMailer
    /\ render = IdleRender
    /\ merge = IdleMerge
    /\ nextExec = IdleNextExec

NextBoot ==
    \/ ConnectToDatabase
    \/ BootEmailService
    \/ TestEmailConnection
    \/ StartScheduleWorker
    \/ Listen
    \/ Next

SpecBoot == InitBoot /\ [][NextBoot]_vars

\* the administrative endpoints on their own, from an empty schedules table
InitCtl == InitAtRest /\ InitFnIdle

NextCtl == createSchedule \/ updateSchedule

SpecCtl == InitCtl /\ [][NextCtl]_vars

\* the worker with both schedules daily at 09:00 and an admin switching schedules
\* off and on while it runs
NextAdmin == Next \/ updateScheduleStatus

SpecAdmin == InitNine /\ [][NextAdmin]_vars

\* the worker ticking for ever, over a store whose template may have been switched
\* off, with the store available and every send succeeding: no failure is left to inject
InitForever ==
    /\ \E type \in ScheduleTypes :
          schedules = [s \in ScheduleIds |->
                          InitSchedule(s, IF s = 1 THEN type ELSE "daily")]
    /\ templates \in [TemplateIds -> [is_active : BOOLEAN]]
    /\ users = [u \in UserIds |-> [is_active |-> u # 3]]
    /\ notifications = {}
    /\ deliveryLog = {}
    /\ nextNotifId = 1
    /\ now = At(FirstDay, 0)
    /\ isWorkerRunning = FALSE
    /\ ticks = 0
    /\ pass = [i \in PassIds |-> IdlePass]
    /\ outbox = {}
    /\ runLog = <<>>
    /\ faults = MaxFaults
    /\ InitDueIdle
    /\ InitBooted
    /\ InitFnIdle
    /\ InitNoRequests

\* with no failure, no run reaches the rollback of line 429
NextForever ==
    \/ AdvanceClock
    \/ Tick
    \/ Recycle
    \/ \E i \in PassIds :
          \/ SelectSchedules(i)
          \/ Begin(i)
          \/ FetchRecipients(i)
          \/ CommitNoop(i)
          \/ InsertNotification(i)
          \/ SendEmail(i)
          \/ InsertDeliveryLog(i)
          \/ UpdateStatus(i)
          \/ UpdateSchedule(i)
          \/ Commit(i)

\* node-cron fires the callback every minute, the event loop runs every continuation
\* whose promise has settled, every query and every sendEmail call settles; the clock
\* is not bound to the steps of the worker
ForeverFairness ==
    /\ WF_vars(Tick)
    /\ WF_vars(Recycle)
    /\ \A i \in PassIds :
          /\ WF_vars(SelectSchedules(i))
          /\ WF_vars(Begin(i))
          /\ WF_vars(FetchRecipients(i))
          /\ WF_vars(CommitNoop(i))
          /\ WF_vars(InsertNotification(i))
          /\ WF_vars(SendEmail(i))
          /\ WF_vars(InsertDeliveryLog(i))
          /\ WF_vars(UpdateStatus(i))
          /\ WF_vars(UpdateSchedule(i))
          /\ WF_vars(Commit(i))

SpecForever == InitForever /\ [][NextForever]_vars /\ ForeverFairness

NextDue == DueCheck \/ DueRun \/ DueAdvance

SpecDue == InitDue /\ [][NextDue]_vars

----------------------------------------------------------------------------
(* Properties *)

\* the entries of the run history of one schedule, by position
EntriesOf(s) == {k \in 1 .. Len(runLog) : runLog[k].schedule_id = s}

\* the committed runs of one schedule, by position
CommittedOf(s) == {k \in EntriesOf(s) : runLog[k].outcome = "committed"}

\* the entry is the latest one of its schedule
IsLatest(k) == \A j \in EntriesOf(runLog[k].schedule_id) : j <= k

\* C1: at most one pass is in flight at any instant, and a cron callback that fires
\* while a pass is in flight returns at once: it starts no pass and changes nothing
\* of the store, the flag, the other callbacks, the mails sent or the run history.
C1_NonOverlap ==
    /\ [](Cardinality(InFlight) <= 1)
    /\ [][(ticks' = ticks + 1 /\ InFlight # {}) =>
            /\ pass'[ticks'].pc = "skipped"
            /\ \A j \in PassIds \ {ticks'} : pass'[j] = pass[j]
            /\ UNCHANGED <<now, storeVars, isWorkerRunning, outbox, runLog, faults>>]_vars

\* a callback was skipped while a pass was in flight
C1_Witness == \E i \in PassIds : pass[i].pc = "skipped" /\ InFlight # {}

\* C2: when no pass is in flight, whichever way the passes so far ended,
\* isWorkerRunning is false, so the next callback starts a pass.
C2_FlagReleased == (InFlight = {}) => (isWorkerRunning = FALSE)

\* a pass ended by an exception that escaped processSchedules, another one normally
C2_Witness ==
    /\ InFlight = {}
    /\ \E i \in PassIds : pass[i].pc = "done" /\ pass[i].exit = "escaped"
    /\ \E i \in PassIds : pass[i].pc = "done" /\ pass[i].exit \in {"empty", "processed"}

\* C3: two committed runs of one schedule never fall in the same period: not on the
\* same calendar day (daily), not less than 7 days apart (weekly), not in the same
\* month of the same year (monthly), and a once schedule has at most one.
C3_NoDoubleFire ==
    \A s \in ScheduleIds : \A a, b \in CommittedOf(s) :
        a < b =>
            LET la == runLog[a].last_executed
                lb == runLog[b].last_executed
                type == schedules[s].schedule_type
            IN  /\ type # "once"
                /\ DayOf(la) # DayOf(lb)
                /\ type = "weekly" => lb - la >= 7 * MinutesPerDay
                /\ type = "monthly" =>
                       <<getFullYear(la), getMonth(la)>> # <<getFullYear(lb), getMonth(lb)>>

\* a weekly schedule has run twice
C3_Witness ==
    \E s \in ScheduleIds :
        /\ schedules[s].schedule_type = "weekly"
        /\ Cardinality(CommittedOf(s)) = 2

InProgressIds == UNION {pass[i].run.created : i \in PassIds}

\* C5: every sendEmail call whose run is over has exactly one stored delivery-log row.
C5_EverySendLogged ==
    \A m \in outbox :
        m.notification_id \notin InProgressIds =>
            Cardinality({l \in deliveryLog : l.notification_id = m.notification_id}) = 1

\* C6: in a committed run every notification row created has the status of its own
\* recipient's outcome (sent after a successful send, failed otherwise), whatever
\* happened to the other recipients, and last_executed is the run's.
C6_RecipientIsolation ==
    \A k \in 1 .. Len(runLog) :
        LET e == runLog[k]
        IN  e.outcome = "committed" =>
                /\ \A id \in e.created :
                      \E n \in notifications :
                          /\ n.notification_id = id
                          /\ n.status = IF \E m \in outbox : m.notification_id = id /\ m.success
                                        THEN "sent" ELSE "failed"
                /\ IsLatest(k) => schedules[e.schedule_id].last_executed = e.last_executed

\* C7 as stated: a once schedule whose last_executed is set is never selected again.
C7_OnceNeverReselected ==
    \A i \in PassIds : \A k \in 1 .. Len(pass[i].selected) :
        pass[i].selected[k].schedule_type = "once" => pass[i].selected[k].last_executed = Null

\* C7 amended: a once schedule whose last_executed is set is never executed again: a
\* run that finds last_executed set creates no notification, sends nothing and
\* commits nothing, and the schedule has at most one committed run.
C7_OnceNeverRerun ==
    /\ \A s \in ScheduleIds :
          schedules[s].schedule_type = "once" => Cardinality(CommittedOf(s)) <= 1
    /\ \A k \in 1 .. Len(runLog) :
          (schedules[runLog[k].schedule_id].schedule_type = "once" /\ runLog[k].was # Null) =>
              runLog[k].outcome # "committed" /\ runLog[k].created = {}
    /\ \A i \in InFlight :
          (pass[i].idx > 0 /\ Current(pass[i]).schedule_type = "once"
              /\ Current(pass[i]).last_executed # Null) =>
              pass[i].pc \in {"begin", "commitNoop", "rollback"} /\ pass[i].run.created = {}

\* a once schedule that had run was selected on a later day and skipped
C7_Witness ==
    \E k \in 1 .. Len(runLog) :
        /\ schedules[runLog[k].schedule_id].schedule_type = "once"
        /\ runLog[k].was # Null
        /\ runLog[k].outcome = "skipped"

\* C8: a daily schedule that ran on day D is not due at any check on day D, and is
\* due on day D+1 (start_date <= D+1).
C8_Daily ==
    (dueType = "daily" /\ dueLast # Null /\ dueResult # "unset") =>
        /\ DayOf(dueNow) = DayOf(dueLast) => dueResult = "notdue"
        /\ (DayOf(dueNow) = DayOf(dueLast) + 1 /\ dueStart <= DayOf(dueNow)) =>
               dueResult = "due"

\* a daily schedule that ran yesterday was checked and found due
C8_Witness ==
    /\ dueType = "daily" /\ dueLast # Null
    /\ DayOf(dueNow) = DayOf(dueLast) + 1
    /\ dueResult = "due"

\* C9: a weekly schedule whose last run was on day D is not due on days D+1 .. D+6
\* and is due on every day from D+7 on.
C9_Weekly ==
    (dueType = "weekly" /\ dueLast # Null /\ dueResult # "unset") =>
        LET elapsed == DayOf(dueNow) - DayOf(dueLast)
        IN  /\ elapsed \in 1 .. 6 => dueResult = "notdue"
            /\ elapsed >= 7 => dueResult = "due"

C11_SelectedSatisfiesFilters ==
    [][\A i \in PassIds :
          (pass[i].pc = "select" /\ pass'[i].pc = "begin") =>
              \A k \in 1 .. Len(pass'[i].selected) :
                  LET row == schedules[pass'[i].selected[k].schedule_id]
                      tpl == templates[row.template_id]
                  IN  \/ IsSelected(row, tpl, pass[i].currentDate, HHMM(pass[i].currentDate))
                      \/ IsSelected(row, tpl, now, HHMM(now))]_vars

\* C12: every notification row is created with status pending; the only change ever
\* made to a row is of its status, from pending to sent or from pending to failed,
\* after the sendEmail call for that row has returned, with sent for a successful
\* send and failed otherwise; a row that is sent or failed, and a committed row, is
\* never changed again.
C12_StatusTransitions ==
    [][/\ \A i \in PassIds : \A n \in pass'[i].run.tx.notifs :
             LET before == {m \in pass[i].run.tx.notifs :
                               m.notification_id = n.notification_id}
             IN  \/ n \in before
                 \/ before = {} /\ n.status = "pending"
                 \/ /\ before = {[n EXCEPT !.status = "pending", !.sent_at = Null]}
                    /\ n.status \in {"sent", "failed"}
                    /\ \E o \in outbox :
                          /\ o.notification_id = n.notification_id
                          /\ o.success <=> n.status = "sent"
       /\ notifications \subseteq notifications'
       /\ \A n \in notifications' \ notifications :
             /\ \E i \in PassIds : n \in pass[i].run.tx.notifs
             /\ \A m \in notifications : m.notification_id # n.notification_id]_vars

\* a committed run left one row sent and one row failed
C12_Witness ==
    \E a, b \in notifications :
        a.schedule_id = b.schedule_id /\ a.status = "sent" /\ b.status = "failed"

\* the latest committed run of a schedule
LatestCommitted(s) == CHOOSE k \in CommittedOf(s) : \A j \in CommittedOf(s) : j <= k

\* C13: the stored last_executed of a schedule is null until its first committed run
\* and is then always the value its latest committed run wrote after its recipient
\* loop: skipped, empty-recipient and rolled-back runs leave it unchanged; and the
\* values successive committed runs write never decrease.
C13_LastExecutedMonotone ==
    \A s \in ScheduleIds :
        /\ schedules[s].last_executed =
               IF CommittedOf(s) = {} THEN Null ELSE runLog[LatestCommitted(s)].last_executed
        /\ \A k \in CommittedOf(s) :
               /\ runLog[k].last_executed # Null
               /\ runLog[k].was <= runLog[k].last_executed
        /\ \A a, b \in CommittedOf(s) :
               a < b => runLog[a].last_executed <= runLog[b].last_executed

\* a daily schedule ran and committed on two days, each writing last_executed
C13_Witness ==
    \E s \in ScheduleIds : \E a, b \in CommittedOf(s) :
        /\ schedules[s].schedule_type = "daily"
        /\ runLog[a].last_executed < runLog[b].last_executed
        /\ schedules[s].last_executed = runLog[b].last_executed

\* C14: whatever fails while one schedule is executed (begin, a query, the commit or
\* the rollback), the pass goes on to the schedules selected after it: a pass ends
\* only when the schedule it is at is the last of its selection.
C14_LaterSchedulesAttempted ==
    [][\A i \in PassIds :
          (pass[i].pc \in InFlightPcs \ {"select"} /\ pass'[i].pc = "done") =>
              pass[i].idx = Len(pass[i].selected)]_vars

\* what a sendEmail call returned, with the number of transporter.sendMail calls it
\* made and how the transport answered, is as C15 says
ResultAsClaimed(r) ==
    /\ r.attempts <= 1
    /\ r.transport = "none" => (r.attempts = 0 /\ r.result = NotInitialized)
    /\ r.transport = "rejected" =>
           (r.attempts = 1 /\ ~r.result.success /\ r.result.error \in TransportErrors)
    /\ r.transport = "resolved" =>
           (r.attempts = 1 /\ r.result.success /\ r.result.messageId \in MessageIds)
    /\ ~r.result.success => r.result.error # ""

\* C15: a sendEmail call calls the transport at most once, and always ends by
\* returning a result: success with the message id when the transport accepted the
\* mail, success = false with the error's message when the transport threw, and
\* success = false with an error text, the transport not called, when there is no
\* transporter; it never throws.
C15_SingleAttemptResult ==
    /\ mailer.pc # "threw"
    /\ mailer.attempts <= 1
    /\ mailer.pc = "sendMail" => (mailer.transporter /\ mailer.attempts = 1)
    /\ mailer.pc = "returned" =>
           ResultAsClaimed([result |-> mailer.result, attempts |-> mailer.attempts,
                            transport |-> mailer.transport])
    /\ \A k \in 1 .. Len(mailer.log) : ResultAsClaimed(mailer.log[k])

\* one call returned without a transporter, one after the transport threw and one
\* after it accepted the mail
C15_Witness ==
    \E a, b, c \in 1 .. Len(mailer.log) :
        /\ mailer.log[a].transport = "none"
        /\ mailer.log[b].transport = "rejected"
        /\ mailer.log[c].transport = "resolved"

\* C16: every pass that starts ends, and isWorkerRunning is false when it has ended,
\* also when transporter.sendMail never answers for some recipient.
C16_PassEnds ==
    \A i \in PassIds :
        (pass[i].pc \in InFlightPcs) ~> (pass[i].pc = "done" /\ ~isWorkerRunning)

\* the key, character for character, stands at position p of s
NameAt(s, p, key) ==
    /\ p + Len(key) - 1 <= Len(s)
    /\ \A j \in 1 .. Len(key) : key[j] = s[p + j - 1]

\* the placeholder {{key}}, spaces allowed around the name, stands at position p of
\* s: the position after it, or 0
PlaceholderAt(s, p, key) ==
    IF ~(p + 1 <= Len(s) /\ s[p] = "{" /\ s[p + 1] = "{") THEN 0
    ELSE LET q == SkipSpaces(s, p + 2)
         IN  IF ~NameAt(s, q, key) THEN 0
             ELSE LET r == SkipSpaces(s, q + Len(key))
                  IN  IF r + 1 <= Len(s) /\ s[r] = "}" /\ s[r + 1] = "}" THEN r + 2 ELSE 0

\* the template from position p on with every placeholder whose name is a key of the
\* map replaced by String of its value, and everything else as it stands
RECURSIVE Rendered(_, _, _)
Rendered(s, p, variables) ==
    IF p > Len(s) THEN <<>>
    ELSE LET hits == {k \in 1 .. Len(variables) : PlaceholderAt(s, p, variables[k][1]) # 0}
         IN  IF hits # {}
             THEN LET k == CHOOSE h \in hits : TRUE
                  IN  String(variables[k][2])
                          \o Rendered(s, PlaceholderAt(s, p, variables[k][1]), variables)
             ELSE <<s[p]>> \o Rendered(s, p + 1, variables)

\* C17: replaceTemplateVariables returns the template with every {{name}} (spaces
\* allowed inside the braces) whose name is in the variable map replaced by
\* String(variables[name]), and every other placeholder left as it stands.
C17_RenderAsSpecified ==
    render.pc = "returned" => render.result = Rendered(render.template, 1, render.variables)

\* C18: in the variable set built for a recipient the five recipient fields and the
\* four schedule context fields are all present with the values taken from the
\* recipient row and the schedule row ('' for a null phone number, sub department
\* or name), whatever the schedule's template_variables hold under the same names;
\* the other template_variables entries are kept.
C18_FieldsTakePrecedence ==
    merge.pc = "built" =>
        LET r == merge.recipient
            s == merge.schedule
            v == merge.vars
        IN  /\ RecipientFields \cup ContextFields \subseteq DOMAIN v
            /\ v["first_name"] = r.first_name
            /\ v["last_name"] = r.last_name
            /\ v["full_name"] = Str(r.first_name.text \o <<" ">> \o r.last_name.text)
            /\ v["email"] = r.email
            /\ v["phone_number"] = IF r.phone_number = JsNull THEN Str(<<>>)
                                   ELSE r.phone_number
            /\ v["department_id"] = s.department_id
            /\ v["sub_department_id"] = IF s.sub_department_id = JsNull THEN Str(<<>>)
                                        ELSE s.sub_department_id
            /\ v["department_name"] = s.department_name
            /\ v["sub_department_name"] = IF s.sub_department_name = JsNull THEN Str(<<>>)
                                          ELSE s.sub_department_name
            /\ \A k \in DOMAIN merge.templateVars \ (RecipientFields \cup ContextFields) :
                   k \in DOMAIN v /\ v[k] = merge.templateVars[k]

\* a variable set was built from template_variables that name first_name,
\* phone_number and sub_department_id, for a recipient without a phone number
C18_Witness ==
    /\ merge.pc = "built"
    /\ {"first_name", "phone_number", "sub_department_id"} \subseteq DOMAIN merge.templateVars
    /\ merge.recipient.phone_number = JsNull
    /\ merge.vars["first_name"] = merge.recipient.first_name

\* the number of days of a month (0-based) of a year
DaysInMonth(year, month) == DaysFromCivil(year, month + 1, 1) - DaysFromCivil(year, month, 1)

\* C19: for a monthly schedule calculateNextExecution returns schedule_time on the
\* day of the next month with the number of the day it is called on, or on the last
\* day of the next month when that month has no such day.
C19_MonthlyClamped ==
    (nextExec.pc = "returned" /\ nextExec.scheduleType = "monthly") =>
        LET y == getFullYear(nextExec.now)
            m == getMonth(nextExec.now)
            d == getDate(nextExec.now)
            ty == IF m = 11 THEN y + 1 ELSE y
            tm == (m + 1) % 12
            td == IF d <= DaysInMonth(ty, tm) THEN d ELSE DaysInMonth(ty, tm)
        IN  /\ getFullYear(nextExec.result) = ty
            /\ getMonth(nextExec.result) = tm
            /\ getDate(nextExec.result) = td
            /\ TimeOfDay(nextExec.result) = nextExec.scheduleTime

\* the callbacks that started a pass
StartedPasses == {i \in PassIds : pass[i].pc \notin {"idle", "skipped"}}

\* C20: the cron callback is registered, and a pass starts, only in a process whose
\* database connection succeeded and whose SMTP connection test reported ready.
C20_StartedOnlyWhenReady ==
    (boot.cronScheduled \/ StartedPasses # {}) => (boot.dbConnected /\ boot.emailReady)

\* the active recipients a run of the schedule fetches
ActiveRecipients(s) == ActiveOf(Assigned[s])

\* C21: a committed run of a daily schedule with n >= 1 active recipients has stored
\* exactly n notification rows, each sent or failed as its own send went, and exactly
\* n delivery-log rows; and it has stored last_executed = the instant of the run and
\* next_execution = the day after it at schedule_time.
C21_CommittedRunComplete ==
    \A k \in 1 .. Len(runLog) :
        LET e == runLog[k]
            row == schedules[e.schedule_id]
            n == Len(ActiveRecipients(e.schedule_id))
        IN  (e.outcome = "committed" /\ row.schedule_type = "daily" /\ n >= 1) =>
                /\ Cardinality(e.created) = n
                /\ Cardinality({r \in notifications : r.notification_id \in e.created}) = n
                /\ \A r \in notifications :
                       r.notification_id \in e.created =>
                           r.status = IF \E m \in outbox : /\ m.notification_id = r.notification_id
                                                           /\ m.success
                                      THEN "sent" ELSE "failed"
                /\ Cardinality({l \in deliveryLog : l.notification_id \in e.created}) = n
                /\ IsLatest(k) =>
                       /\ row.last_executed = e.last_executed
                       /\ row.next_execution =
                              At(DayOf(e.last_executed) + 1, row.schedule_time)

\* the stored schedule_time is a valid 24h HH:MM followed by the seconds ":00"
StoredTimeValid(time) ==
    /\ Len(time) = 8
    /\ isValidTime(SubSeq(time, 1, 5))
    /\ SubSeq(time, 6, 8) = <<":", "0", "0">>

\* C22: every schedule stored through createSchedule or updateSchedule has an
\* end_date that is null or not before its start_date, a schedule_time that is a
\* valid 24h HH:MM and a schedule_type among once, daily, weekly and monthly.
C22_StoredSchedulesValid ==
    \A id \in 1 .. Len(ctl.rows) :
        LET row == ctl.rows[id]
        IN  /\ row.end_date = Null \/ row.end_date >= row.start_date
            /\ StoredTimeValid(row.schedule_time)
            /\ isValidScheduleType(row.schedule_type)

\* C23: every user assigned to a stored schedule belongs to the schedule's
\* department and, when the schedule has a sub_department_id, to that sub-department.
C23_RecipientsConsistent ==
    \A id \in 1 .. Len(ctl.rows) : \A u \in ctl.recipients[id] :
        /\ CtlUsers[u].department_id = ctl.rows[id].department_id
        /\ ctl.rows[id].sub_department_id # Null =>
               CtlUsers[u].sub_department_id = ctl.rows[id].sub_department_id

\* C24: when executeSchedule commits on one of its two no-op branches (the schedule
\* is not due by shouldExecuteToday, or it has no active recipient), the step writes
\* no row and sends nothing, leaves last_executed and next_execution as they were,
\* records a run that created nothing, and the pass goes on with the next selected
\* schedule or ends normally after the last one.
C24_NoopWritesNothing ==
    [][\A i \in PassIds :
          (pass[i].pc = "commitNoop" /\ pass'[i].pc # "commitNoop"
                                     /\ pass'[i].pc # "rollback") =>
              /\ pass[i].run.branch \in {"skipped", "empty"}
              /\ pass[i].run.tx = NoTx
              /\ UNCHANGED <<schedules, notifications, deliveryLog, nextNotifId, outbox>>
              /\ runLog' = Append(runLog, [schedule_id |-> Current(pass[i]).schedule_id,
                                           outcome |-> pass[i].run.branch,
                                           cause |-> "none", created |-> {},
                                           was |-> Current(pass[i]).last_executed,
                                           last_executed |-> Null])
              /\ IF pass[i].idx < Len(pass[i].selected)
                 THEN /\ pass'[i].pc = "begin"
                      /\ pass'[i].idx = pass[i].idx + 1
                      /\ pass'[i].selected = pass[i].selected
                 ELSE pass'[i].pc = "done" /\ pass'[i].exit = "processed"]_vars

\* one pass has committed a run that was not due and a run without active recipients
C24_Witness ==
    /\ \E k \in 1 .. Len(runLog) : runLog[k].outcome = "skipped"
    /\ \E k \in 1 .. Len(runLog) : runLog[k].outcome = "empty"

\* the callbacks whose executeSchedule call has a transaction open
OpenTransactions ==
    {i \in PassIds : pass[i].pc \in InFlightPcs \ {"select", "begin"}}

\* C25: the schedules of a pass are executed one at a time, in the order the selector
\* returned, and that order is ascending by schedule_time with ties broken by
\* schedule_id, so it is determined by the store.
C25_DeterministicOrder ==
    /\ Cardinality(OpenTransactions) <= 1
    /\ \A i \in PassIds : \A a, b \in 1 .. Len(pass[i].selected) :
          a < b =>
              LET x == pass[i].selected[a]
                  y == pass[i].selected[b]
              IN  \/ x.schedule_time < y.schedule_time
                  \/ x.schedule_time = y.schedule_time /\ x.schedule_id < y.schedule_id

\* the instants t and u fall in the same period of a schedule of the given type
SamePeriod(type, t, u) ==
    CASE type = "once" -> TRUE
      [] type = "daily" -> DayOf(t) = DayOf(u)
      [] type = "weekly" -> u - t < 7 * MinutesPerDay /\ t - u < 7 * MinutesPerDay
      [] type = "monthly" -> <<getFullYear(t), getMonth(t)>> = <<getFullYear(u), getMonth(u)>>

\* C26: sendEmail is called at most once per schedule and recipient in one period.
\* Every call was made between the first instant of the behaviour and now, so while
\* now is in the period of that first instant, no two calls have the same schedule
\* and recipient.
C26_OneSendPerPeriod ==
    \A m, n \in outbox :
        (/\ m.schedule_id = n.schedule_id
         /\ m.user_id = n.user_id
         /\ SamePeriod(schedules[m.schedule_id].schedule_type, At(FirstDay, 0), now)) =>
            m = n

\* the notification ids of the runs that are over and were not rolled back
CommittedIds ==
    UNION {runLog[k].created : k \in {j \in 1 .. Len(runLog) : runLog[j].outcome = "committed"}}

\* C27: every stored notification row of a committed run has a terminal status and
\* exactly one delivery-log row, with which it agrees: sent with delivered, failed
\* with failed, sent_at and delivered_at set exactly when the send succeeded, and
\* delivery_attempts = 1.
C27_RowsAgreeWithLog ==
    \A n \in notifications :
        n.notification_id \in CommittedIds =>
            LET logs == {l \in deliveryLog : l.notification_id = n.notification_id}
                ok == \E m \in outbox : m.notification_id = n.notification_id /\ m.success
            IN  /\ n.status \in {"sent", "failed"}
                /\ Cardinality(logs) = 1
                /\ \A l \in logs :
                      /\ n.status = "sent" <=> l.delivery_status = "delivered"
                      /\ n.status = "failed" <=> l.delivery_status = "failed"
                      /\ l.delivery_attempts = 1
                      /\ (l.delivered_at # Null) <=> ok
                /\ (n.sent_at # Null) <=> ok

\* the character c occurs in the string s
Occurs(c, s) == \E j \in 1 .. Len(s) : s[j] = c

\* a variable map whose keys are plain names and whose values hold no $, so that
\* nothing but the passes over the text decides what the rendering is
PlainVariables(variables) ==
    \A k \in 1 .. Len(variables) :
        /\ ~Occurs(".", variables[k][1])
        /\ ~Occurs("$", String(variables[k][2]))

\* C28: rendering is single-pass: with plain keys and values, the result is the
\* template with each placeholder replaced once by the value of its name, and a value
\* that itself holds a placeholder ({{b}}) stands in the result as it is, in whatever
\* order the entries of the map come.
C28_SinglePass ==
    (render.pc = "returned" /\ PlainVariables(render.variables)) =>
        render.result = Rendered(render.template, 1, render.variables)

\* C29: a run of executeSchedule whose schedule was found deactivated when its
\* transaction began (the schedule was switched off after the selector query of the
\* pass) creates no notification row and makes no sendEmail call.
C29_DeactivationRespected ==
    \A i \in PassIds :
        (pass[i].pc \in InFlightPcs \ {"select", "begin"} /\ ~pass[i].run.activeAtBegin) =>
            /\ pass[i].run.created = {}
            /\ pass[i].run.tx.notifs = {}
            /\ pass[i].pc \notin {"send", "log", "status"}

\* the schedule is active, within its start and end dates, has an active recipient,
\* is due today by shouldExecuteToday, and its schedule_time of today has passed
DueNow(s) ==
    LET row == schedules[s]
    IN  /\ row.is_active
        /\ row.start_date <= DayOf(now)
        /\ row.end_date = Null \/ row.end_date >= DayOf(now)
        /\ ActiveRecipients(s) # <<>>
        /\ shouldExecuteToday(row.schedule_type, row.start_date, row.last_executed, now)
        /\ HHMMLeq(HHMM(row.schedule_time), HHMM(now))

\* a run of the schedule has been committed with last_executed on day d
ExecutedOn(s, d) ==
    schedules[s].last_executed # Null /\ DayOf(schedules[s].last_executed) = d

ExecutedAndDone(s) ==
    /\ schedules[s].last_executed # Null
    /\ ~shouldExecuteToday(schedules[s].schedule_type, schedules[s].start_date,
                           schedules[s].last_executed, now)

====
